---- MODULE Spec2Model ----
(***************************************************************************)
(* Model of recieve_webhook/lambda/lambda_function.py: the webhook         *)
(* ingestor lambda_handler, the module globals s3 and bucket, and the      *)
(* library calls the handler makes (json.loads, json.dumps, strftime,      *)
(* uuid4().hex, put_object).                                                *)
(*                                                                         *)
(* A Python str is a sequence of characters; a character is a one-element  *)
(* TLA+ string, except the characters written by code point: the control   *)
(* characters "U+0008" .. "U+000D" and "U+00E9" (e with acute accent).     *)
(***************************************************************************)
EXTENDS Integers, Sequences, FiniteSets, TLC

\* ------------------------------------------------------------------ bounds

\* Longest body string enumerated exhaustively (SpecJson).
MaxLen == 4
\* Number of invocations the runtime starts in one process (Spec).
MaxInv == 2
\* Days the UTC clock may advance during a run.
MaxTicks == 1
\* The interpreter's recursion limit (1000 by default) scaled to the model.
RecursionLimit == 2

\* ------------------------------------------------------------- characters

Letters ==
  << "a", "b", "c", "d", "e", "f", "g", "h", "i", "j", "k", "l", "m",
     "n", "o", "p", "q", "r", "s", "t", "u", "v", "w", "x", "y", "z" >>

DigitChars == << "0", "1", "2", "3", "4", "5", "6", "7", "8", "9" >>

HexChars ==
  << "0", "1", "2", "3", "4", "5", "6", "7", "8", "9",
     "a", "b", "c", "d", "e", "f" >>

\* Punctuation and the characters outside the printable ASCII range.
OtherChars ==
  << <<"U+0008", 8>>, <<"U+0009", 9>>, <<"U+000A", 10>>, <<"U+000C", 12>>,
     <<"U+000D", 13>>, <<" ", 32>>, <<"\"", 34>>, <<",", 44>>, <<"-", 45>>,
     <<".", 46>>, <<"/", 47>>, <<":", 58>>, <<"A", 65>>, <<"B", 66>>,
     <<"C", 67>>, <<"D", 68>>, <<"E", 69>>, <<"F", 70>>, <<"[", 91>>,
     <<"\\", 92>>, <<"]", 93>>, <<"{", 123>>, <<"}", 125>>, <<"U+00E9", 233>> >>

Range(f) == { f[i] : i \in DOMAIN f }

LetterSet == Range(Letters)
DigitSet == Range(DigitChars)
HexSet == Range(HexChars)
UpperHex == <<"A", "B", "C", "D", "E", "F">>

\* ord(c) for the characters of OtherChars.
OtherOrd == [c \in { p[1] : p \in Range(OtherChars) } |->
               (CHOOSE p \in Range(OtherChars) : p[1] = c)[2]]

IndexOf(seq, c) == CHOOSE i \in DOMAIN seq : seq[i] = c

IsDigit(c) == c \in DigitSet

DigitVal(c) == IndexOf(DigitChars, c) - 1

IsLower(c) == c \in LetterSet

\* ord(c)
Ord(c) ==
  IF IsLower(c) THEN 96 + IndexOf(Letters, c)
  ELSE IF IsDigit(c) THEN 48 + DigitVal(c)
  ELSE OtherOrd[c]

Chars == LetterSet \cup DigitSet \cup DOMAIN OtherOrd

\* chr(n), for the code points of Chars; any other code point is "U+????".
Chr(n) ==
  IF \E c \in Chars : Ord(c) = n THEN CHOOSE c \in Chars : Ord(c) = n ELSE "U+????"

\* s[i:j] with 1-based inclusive bounds, clipped like a Python slice.
Slice(s, i, j) ==
  IF j > Len(s) THEN SubSeq(s, i, Len(s)) ELSE SubSeq(s, i, j)

\* "".join(ss)
RECURSIVE Concat(_)
Concat(ss) ==
  IF ss = <<>> THEN <<>>
  ELSE IF Len(ss) = 1 THEN ss[1]
  ELSE Concat(SubSeq(ss, 1, Len(ss) \div 2))
         \o Concat(SubSeq(ss, (Len(ss) \div 2) + 1, Len(ss)))

\* sep.join(ss)
RECURSIVE Join(_, _)
Join(sep, ss) ==
  IF ss = <<>> THEN <<>>
  ELSE IF Len(ss) = 1 THEN ss[1]
  ELSE ss[1] \o sep \o Join(sep, Tail(ss))

\* str(n) for a natural number n.
RECURSIVE NatToStr(_)
NatToStr(n) ==
  IF n < 10 THEN << DigitChars[n + 1] >>
  ELSE NatToStr(n \div 10) \o << DigitChars[(n % 10) + 1] >>

\* str(n) for an integer n.
IntToStr(n) == IF n < 0 THEN <<"-">> \o NatToStr(0 - n) ELSE NatToStr(n)

\* int(s) for a string of decimal digits.
RECURSIVE StrToNat(_)
StrToNat(s) ==
  IF s = <<>> THEN 0
  ELSE 10 * StrToNat(SubSeq(s, 1, Len(s) - 1)) + DigitVal(s[Len(s)])

\* "%0<w>d" % n
RECURSIVE ZeroPad(_, _)
ZeroPad(s, w) == IF Len(s) >= w THEN s ELSE ZeroPad(<<"0">> \o s, w)

\* "%04x" % n
Hex4(n) ==
  << HexChars[((n \div 4096) % 16) + 1], HexChars[((n \div 256) % 16) + 1],
     HexChars[((n \div 16) % 16) + 1], HexChars[(n % 16) + 1] >>

IsHexDigit(c) == c \in HexSet \cup Range(UpperHex)

HexVal(c) ==
  IF c \in HexSet THEN IndexOf(HexChars, c) - 1 ELSE 9 + IndexOf(UpperHex, c)

\* ------------------------------------------------------- Python values

(* The values a body or payload can be: None, bool, int, str, list, dict.  *)
(* Every value is a record of the same shape; t is the Python type, n the  *)
(* number, s the characters of a str, items the elements of a list or the  *)
(* values of a dict, keys the keys of a dict in insertion order.           *)
JNull == [t |-> "NoneType", n |-> 0, s |-> <<>>, items |-> <<>>, keys |-> <<>>]
JBool(b) == [t |-> "bool", n |-> IF b THEN 1 ELSE 0, s |-> <<>>, items |-> <<>>, keys |-> <<>>]
JInt(n) == [t |-> "int", n |-> n, s |-> <<>>, items |-> <<>>, keys |-> <<>>]
JStr(s) == [t |-> "str", n |-> 0, s |-> s, items |-> <<>>, keys |-> <<>>]
JList(items) == [t |-> "list", n |-> 0, s |-> <<>>, items |-> items, keys |-> <<>>]
JDict(keys, items) == [t |-> "dict", n |-> 0, s |-> <<>>, items |-> items, keys |-> keys]

\* isinstance(v, str)
IsStr(v) == v.t = "str"

\* ------------------------------------------------------------ json.dumps

\* EscapeChar with the backslash left as it is.
EscapeCharQuoteOnly(c) ==
  IF c = "\"" THEN <<"\\", "\"">>
  ELSE IF Ord(c) < 32 \/ Ord(c) > 126 THEN <<"\\", "u">> \o Hex4(Ord(c))
  ELSE <<c>>

\* json.encoder.ESCAPE_DCT, and the \uXXXX form ensure_ascii gives the rest.
EscapeChar(c) ==
  IF c = "\"" THEN <<"\\", "\"">>
  ELSE IF c = "\\" THEN <<"\\", "\\">>
  ELSE IF c = "U+0008" THEN <<"\\", "b">>
  ELSE IF c = "U+0009" THEN <<"\\", "t">>
  ELSE IF c = "U+000A" THEN <<"\\", "n">>
  ELSE IF c = "U+000C" THEN <<"\\", "f">>
  ELSE IF c = "U+000D" THEN <<"\\", "r">>
  ELSE IF Ord(c) < 32 \/ Ord(c) > 126 THEN <<"\\", "u">> \o Hex4(Ord(c))
  ELSE <<c>>

\* json.encoder.encode_basestring_ascii
EncodeString(s) ==
  <<"\"">> \o Concat([i \in 1..Len(s) |-> EscapeChar(s[i])]) \o <<"\"">>

\* json.dumps(v) with the default separators (", " and ": ").
RECURSIVE Dumps(_)
Dumps(v) ==
  IF v.t = "NoneType" THEN <<"n", "u", "l", "l">>
  ELSE IF v.t = "bool" THEN
    (IF v.n = 1 THEN <<"t", "r", "u", "e">> ELSE <<"f", "a", "l", "s", "e">>)
  ELSE IF v.t = "int" THEN IntToStr(v.n)
  ELSE IF v.t = "str" THEN EncodeString(v.s)
  ELSE IF v.t = "list" THEN
    <<"[">> \o Join(<<",", " ">>, [i \in 1..Len(v.items) |-> Dumps(v.items[i])])
            \o <<"]">>
  ELSE
    <<"{">> \o Join(<<",", " ">>,
                    [i \in 1..Len(v.items) |->
                       EncodeString(v.keys[i]) \o <<":", " ">> \o Dumps(v.items[i])])
            \o <<"}">>

\* ------------------------------------------------------------ json.loads

\* A scan result: st is "ok", "stop" (StopIteration), "JSONDecodeError" or
\* "RecursionError"; v the value and e the index after it when st = "ok".
Ok(v, e) == [st |-> "ok", v |-> v, e |-> e]
Stop == [st |-> "stop", v |-> JNull, e |-> 0]
DecodeError == [st |-> "JSONDecodeError", v |-> JNull, e |-> 0]
RecursionError == [st |-> "RecursionError", v |-> JNull, e |-> 0]

IsWS(c) == c \in {" ", "U+0009", "U+000A", "U+000D"}

\* json.decoder.WHITESPACE.match(s, i).end()
RECURSIVE SkipWS(_, _)
SkipWS(s, i) == IF i <= Len(s) /\ IsWS(s[i]) THEN SkipWS(s, i + 1) ELSE i

\* json.decoder.BACKSLASH
Backslash(c) ==
  IF c = "b" THEN "U+0008"
  ELSE IF c = "t" THEN "U+0009"
  ELSE IF c = "n" THEN "U+000A"
  ELSE IF c = "f" THEN "U+000C"
  ELSE IF c = "r" THEN "U+000D"
  ELSE c

\* The first index from i on of a quote, a backslash or a control character
\* (the end of STRINGCHUNK's first group), Len(s) + 1 when there is none.
RECURSIVE ChunkEnd(_, _)
ChunkEnd(s, i) ==
  IF i > Len(s) THEN i
  ELSE IF s[i] \in {"\"", "\\"} \/ Ord(s[i]) < 32 THEN i
  ELSE ChunkEnd(s, i + 1)

\* json.decoder.py_scanstring (strict), from the character after the quote.
RECURSIVE ScanString(_, _, _)
ScanString(s, i, acc) ==
  LET e == ChunkEnd(s, i)
      chunk == acc \o SubSeq(s, i, e - 1)
  IN IF e > Len(s) THEN DecodeError
     ELSE IF s[e] = "\"" THEN Ok(JStr(chunk), e + 1)
     ELSE IF s[e] # "\\" THEN DecodeError
     ELSE IF e + 1 > Len(s) THEN DecodeError
     ELSE IF s[e + 1] = "u" THEN
       IF e + 5 <= Len(s) /\ \A k \in (e + 2)..(e + 5) : IsHexDigit(s[k])
       THEN ScanString(s, e + 6,
              Append(chunk, Chr(4096 * HexVal(s[e + 2]) + 256 * HexVal(s[e + 3])
                                + 16 * HexVal(s[e + 4]) + HexVal(s[e + 5]))))
       ELSE DecodeError
     ELSE IF s[e + 1] \in {"\"", "\\", "/", "b", "f", "n", "r", "t"}
       THEN ScanString(s, e + 2, Append(chunk, Backslash(s[e + 1])))
       ELSE DecodeError

\* The end of the run of digits starting at i.
RECURSIVE DigitsEnd(_, _)
DigitsEnd(s, i) == IF i <= Len(s) /\ IsDigit(s[i]) THEN DigitsEnd(s, i + 1) ELSE i

\* json.scanner.NUMBER_RE, integer part: -?(?:0|[1-9]\d*). A fraction or an
\* exponent would make a float; no body of the model holds one.
ScanNumber(s, i) ==
  LET neg == i <= Len(s) /\ s[i] = "-"
      j == IF neg THEN i + 1 ELSE i
      k == IF j <= Len(s) /\ s[j] = "0" THEN j + 1 ELSE DigitsEnd(s, j)
      n == StrToNat(SubSeq(s, j, k - 1))
  IN IF k = j THEN Stop ELSE Ok(JInt(IF neg THEN 0 - n ELSE n), k)

\* dict(pairs): a repeated key keeps its first position and its last value.
DictPut(d, k, v) ==
  IF \E i \in DOMAIN d.keys : d.keys[i] = k
  THEN JDict(d.keys, [d.items EXCEPT ![IndexOf(d.keys, k)] = v])
  ELSE JDict(Append(d.keys, k), Append(d.items, v))

RECURSIVE ScanOnce(_, _, _, _)
RECURSIVE ArrayLoop(_, _, _, _, _)
RECURSIVE ObjectLoop(_, _, _, _, _)

\* json.decoder.JSONArray, after the look-ahead for the empty array.
ArrayLoop(s, i, depth, limit, vals) ==
  LET r == ScanOnce(s, i, depth, limit)
      j == SkipWS(s, r.e)
  IN IF r.st = "stop" THEN DecodeError
     ELSE IF r.st # "ok" THEN r
     ELSE IF j > Len(s) THEN DecodeError
     ELSE IF s[j] = "]" THEN Ok(JList(Append(vals, r.v)), j + 1)
     ELSE IF s[j] # "," THEN DecodeError
     ELSE ArrayLoop(s, SkipWS(s, j + 1), depth, limit, Append(vals, r.v))

\* json.decoder.JSONArray
JSONArray(s, i, depth, limit) ==
  LET j == SkipWS(s, i)
  IN IF j <= Len(s) /\ s[j] = "]" THEN Ok(JList(<<>>), j + 1)
     ELSE ArrayLoop(s, j, depth, limit, <<>>)

\* json.decoder.JSONObject, from the character after a key's opening quote.
ObjectLoop(s, i, depth, limit, d) ==
  LET key == ScanString(s, i, <<>>)
      c == SkipWS(s, key.e)
      r == ScanOnce(s, SkipWS(s, c + 1), depth, limit)
      j == SkipWS(s, r.e)
      q == SkipWS(s, j + 1)
  IN IF key.st # "ok" THEN key
     ELSE IF c > Len(s) \/ s[c] # ":" THEN DecodeError
     ELSE IF r.st = "stop" THEN DecodeError
     ELSE IF r.st # "ok" THEN r
     ELSE IF j > Len(s) THEN DecodeError
     ELSE IF s[j] = "}" THEN Ok(DictPut(d, key.v.s, r.v), j + 1)
     ELSE IF s[j] # "," THEN DecodeError
     ELSE IF q > Len(s) \/ s[q] # "\"" THEN DecodeError
     ELSE ObjectLoop(s, q + 1, depth, limit, DictPut(d, key.v.s, r.v))

\* json.decoder.JSONObject
JSONObject(s, i, depth, limit) ==
  LET j == SkipWS(s, i)
  IN IF j <= Len(s) /\ s[j] = "}" THEN Ok(JDict(<<>>, <<>>), j + 1)
     ELSE IF j > Len(s) \/ s[j] # "\"" THEN DecodeError
     ELSE ObjectLoop(s, j + 1, depth, limit, JDict(<<>>, <<>>))

\* json.scanner scan_once; depth counts the arrays and objects being decoded,
\* each of which enters one more level of the interpreter's recursion, and
\* limit is the depth at which the interpreter raises RecursionError.
ScanOnce(s, i, depth, limit) ==
  IF i > Len(s) THEN Stop
  ELSE IF s[i] = "\"" THEN ScanString(s, i + 1, <<>>)
  ELSE IF s[i] = "{" THEN
    (IF depth >= limit THEN RecursionError ELSE JSONObject(s, i + 1, depth + 1, limit))
  ELSE IF s[i] = "[" THEN
    (IF depth >= limit THEN RecursionError ELSE JSONArray(s, i + 1, depth + 1, limit))
  ELSE IF Slice(s, i, i + 3) = <<"n", "u", "l", "l">> THEN Ok(JNull, i + 4)
  ELSE IF Slice(s, i, i + 3) = <<"t", "r", "u", "e">> THEN Ok(JBool(TRUE), i + 4)
  ELSE IF Slice(s, i, i + 4) = <<"f", "a", "l", "s", "e">> THEN Ok(JBool(FALSE), i + 5)
  ELSE ScanNumber(s, i)

\* JSONDecoder.decode: raw_decode between two runs of whitespace, and
\* "Extra data" when anything follows.
JSONDecode(s, limit) ==
  LET r == ScanOnce(s, SkipWS(s, 1), 0, limit)
  IN IF r.st = "stop" THEN DecodeError
     ELSE IF r.st # "ok" THEN r
     ELSE IF SkipWS(s, r.e) # Len(s) + 1 THEN DecodeError
     ELSE r

\* json.loads(s)
Loads(s) == JSONDecode(s, RecursionLimit)

\* ------------------------------------------------- strftime and uuid4().hex

IsLeap(y) == (y % 4 = 0 /\ y % 100 # 0) \/ y % 400 = 0

DaysInMonth(y, m) ==
  IF m = 2 THEN (IF IsLeap(y) THEN 29 ELSE 28)
  ELSE IF m \in {4, 6, 9, 11} THEN 30 ELSE 31

\* The UTC date one day after date d.
NextDay(d) ==
  IF d.d < DaysInMonth(d.y, d.m) THEN [d EXCEPT !.d = d.d + 1]
  ELSE IF d.m < 12 THEN [y |-> d.y, m |-> d.m + 1, d |-> 1]
  ELSE [y |-> d.y + 1, m |-> 1, d |-> 1]

\* datetime.strftime("%Y%m%d"): %Y is the year as the C library prints it
\* (not padded), %m and %d are two digits.
Strftime(d) ==
  IntToStr(d.y) \o ZeroPad(IntToStr(d.m), 2) \o ZeroPad(IntToStr(d.d), 2)

\* One reading of os.urandom(16), as 32 four-bit values, high nibble first.
Entropy(r) == [i \in 1..32 |-> (r * i) % 16]

\* What os.urandom(16) can return in the model: two readings, any number of
\* times each.
RandomBytes == { Entropy(0), Entropy(7) }

\* uuid.UUID(bytes=b, version=4): the variant bits become 10, the version 4.
UUID4(b) == [b EXCEPT ![13] = 4, ![17] = 8 + (b[17] % 4)]

\* str(uuid) in place of uuid.hex: the five groups, joined by dashes.
UUIDStr(u) ==
  LET h == [i \in 1..32 |-> HexChars[u[i] + 1]]
  IN SubSeq(h, 1, 8) \o <<"-">> \o SubSeq(h, 9, 12) \o <<"-">> \o SubSeq(h, 13, 16)
       \o <<"-">> \o SubSeq(h, 17, 20) \o <<"-">> \o SubSeq(h, 21, 32)

\* UUID.hex: "%032x" % int
UUIDHex(u) == [i \in 1..32 |-> HexChars[u[i] + 1]]

\* The file name without the token: f"{today}/.json"
MakeFilenameNoToken(today, u) == today \o <<"/", ".", "j", "s", "o", "n">>

\* f"{today}/{uuid.uuid4().hex}.json" for the uuid u
MakeFilename(today, u) ==
  today \o <<"/">> \o UUIDHex(u) \o <<".", "j", "s", "o", "n">>

\* {"message": "stored", "key": filename}
ResponseDict(filename) ==
  JDict(<< <<"m", "e", "s", "s", "a", "g", "e">>, <<"k", "e", "y">> >>,
        << JStr(<<"s", "t", "o", "r", "e", "d">>), JStr(filename) >>)

\* ------------------------------------------------------------------ state

VARIABLES
  s3,        \* the module-level storage client handle
  bucket,    \* the module-level bucket name, os.environ["S3_BUCKET"]
  clock,     \* the current UTC date
  ticks,     \* days the clock has advanced
  store,     \* the object store: <<Bucket, Key>> -> [Body, ContentType]
  calls,     \* the calls each invocation has made on s3, in order
  pc,        \* each invocation's position in lambda_handler
  event,     \* each invocation's event argument
  body,      \* the local body
  payload,   \* the local payload
  today,     \* the local today
  now,       \* the date utcnow() returned to the invocation
  filename,  \* the local filename
  response,  \* the value lambda_handler returned
  exc,       \* the exception lambda_handler raised, "" if none
  token,     \* the UUID uuid4() made for the invocation
  decoded    \* whether the invocation has called json.loads

vars ==
  << s3, bucket, clock, ticks, store, calls, pc, event, body, payload, today,
     now, filename, response, exc, token, decoded >>

locals ==
  << event, body, payload, today, now, filename, response, exc, token, decoded >>

Invocations == 1..MaxInv

\* An event without a "body" key.
NoBody == [hasBody |-> FALSE, body |-> JNull]
WithBody(v) == [hasBody |-> TRUE, body |-> v]

\* The characters the exhaustively enumerated bodies are made of.
Alphabet == {"[", "]", ",", " ", "\"", "\\", "1"}

\* Every string over Alphabet of length at most n.
StringsUpTo(n) == UNION { [1..k -> Alphabet] : k \in 0..n }

\* A body nested one level deeper than the interpreter allows.
DeepBody == [i \in 1..(RecursionLimit + 1) |-> "["]

\* {"a":1,  (the truncated JSON text)
Truncated == <<"{", "\"", "a", "\"", ":", "1", ",">>

\* {"a":1,"a":[null,"é"]}
Ping ==
  << "{", "\"", "a", "\"", ":", "1", ",", "\"", "a", "\"", ":", "[", "n", "u",
     "l", "l", ",", "\"", "\\", "u", "0", "0", "e", "9", "\"", "]", "}" >>

\* The events of the concurrent specification: no body, a JSON text, and a
\* body nested too deeply.
SampleEvents == { NoBody, WithBody(JStr(Ping)), WithBody(JStr(DeepBody)) }

\* The events of the JSON specification: the sample events, an explicit null,
\* bodies the runtime has already decoded, a truncated JSON text, and every
\* short string.
JsonEvents ==
  SampleEvents
    \cup { WithBody(JNull), WithBody(JList(<<JInt(1), JStr(<<"1", "]">>)>>)),
           WithBody(JDict(<< <<"a">> >>, << JBool(TRUE) >>)),
           WithBody(JStr(Truncated)) }
    \cup { WithBody(JStr(s)) : s \in StringsUpTo(MaxLen) }

\* The UTC date the process starts on.
StartDate == [y |-> 2025, m |-> 12, d |-> 31]

\* Before the first call: no response, no locals bound.
NoResponse == [statusCode |-> 0, body |-> <<>>]

Init ==
  /\ s3 = "boto3.client(s3)"
  /\ bucket \in {"S3_BUCKET"}
  /\ clock = StartDate
  /\ ticks = 0
  /\ store = << >>
  /\ calls = [i \in Invocations |-> << >>]
  /\ pc = [i \in Invocations |-> "idle"]
  /\ event = [i \in Invocations |-> NoBody]
  /\ body = [i \in Invocations |-> JNull]
  /\ payload = [i \in Invocations |-> JNull]
  /\ today = [i \in Invocations |-> <<>>]
  /\ now = [i \in Invocations |-> StartDate]
  /\ filename = [i \in Invocations |-> <<>>]
  /\ response = [i \in Invocations |-> NoResponse]
  /\ exc = [i \in Invocations |-> ""]
  /\ token = [i \in Invocations |-> <<>>]
  /\ decoded = [i \in Invocations |-> FALSE]

\* ---------------------------------------------------------------- actions

\* The UTC day ends.
Tick ==
  /\ ticks < MaxTicks
  /\ clock' = NextDay(clock)
  /\ ticks' = ticks + 1
  /\ UNCHANGED << s3, bucket, store, calls, pc, locals >>

\* The runtime calls lambda_handler(ev, context) for some ev of Events.
Invoke(self, Events) ==
  /\ pc[self] = "idle"
  /\ \E ev \in Events : event' = [event EXCEPT ![self] = ev]
  /\ pc' = [pc EXCEPT ![self] = "L12"]
  /\ UNCHANGED << s3, bucket, clock, ticks, store, calls, body, payload, today,
                  now, filename, response, exc, token, decoded >>

\* event.get("body", ""): a missing body read as the empty string.
GetBodyDefault(ev) == IF ev.hasBody THEN ev.body ELSE JStr(<<>>)

\* event.get("body")
GetBody(ev) == IF ev.hasBody THEN ev.body ELSE JNull

\* body = event.get("body")
\* try: payload = json.loads(body) if isinstance(body, str) else body
\* except json.JSONDecodeError: payload = body
\* Any other exception json.loads raises leaves the handler.
Decode(self) ==
  /\ pc[self] = "L12"
  /\ body' = [body EXCEPT ![self] = GetBody(event[self])]
  /\ IF IsStr(body'[self])
     THEN LET r == Loads(body'[self].s)
          IN /\ decoded' = [decoded EXCEPT ![self] = TRUE]
             /\ IF r.st = "ok"
                THEN /\ payload' = [payload EXCEPT ![self] = r.v]
                     /\ pc' = [pc EXCEPT ![self] = "L20"]
                     /\ exc' = exc
                ELSE IF r.st = "JSONDecodeError"
                THEN /\ payload' = [payload EXCEPT ![self] = body'[self]]
                     /\ pc' = [pc EXCEPT ![self] = "L20"]
                     /\ exc' = exc
                ELSE /\ payload' = payload
                     /\ pc' = [pc EXCEPT ![self] = "raised"]
                     /\ exc' = [exc EXCEPT ![self] = r.st]
     ELSE /\ payload' = [payload EXCEPT ![self] = body'[self]]
          /\ pc' = [pc EXCEPT ![self] = "L20"]
          /\ UNCHANGED << exc, decoded >>
  /\ UNCHANGED << s3, bucket, clock, ticks, store, calls, event, today, now,
                  filename, response, token >>

\* today = datetime.datetime.utcnow().strftime("%Y%m%d")
\* filename = f"{today}/{uuid.uuid4().hex}.json"
MakeKey(self) ==
  /\ pc[self] = "L20"
  /\ now' = [now EXCEPT ![self] = clock]
  /\ today' = [today EXCEPT ![self] = Strftime(clock)]
  /\ \E b \in RandomBytes :
       /\ token' = [token EXCEPT ![self] = UUID4(b)]
       /\ filename' = [filename EXCEPT ![self] = MakeFilename(today'[self], UUID4(b))]
  /\ pc' = [pc EXCEPT ![self] = "L23"]
  /\ UNCHANGED << s3, bucket, clock, ticks, store, calls, event, body, payload,
                  response, exc, decoded >>

\* The call with payload read from a variable the invocations share (here it
\* holds the payload of the highest-numbered invocation that has decoded).
PutCallShared(self) ==
  [ op |-> "put_object", Bucket |-> bucket, Key |-> filename[self],
    Body |-> Dumps(payload[CHOOSE j \in Invocations :
                             /\ pc[j] \notin {"idle", "L12"}
                             /\ \A k \in Invocations : pc[k] \in {"idle", "L12"} \/ k <= j]),
    ContentType |-> "application/json" ]

\* The call s3.put_object(Bucket=bucket, Key=filename,
\*                        Body=json.dumps(payload), ContentType="application/json")
PutCall(self) ==
  [ op |-> "put_object", Bucket |-> bucket, Key |-> filename[self],
    Body |-> Dumps(payload[self]), ContentType |-> "application/json" ]

\* The object store after it has carried out the put_object call c.
Stored(c) ==
  [k \in DOMAIN store \cup {<<c.Bucket, c.Key>>} |->
     IF k = <<c.Bucket, c.Key>>
     THEN [Body |-> c.Body, ContentType |-> c.ContentType]
     ELSE store[k]]

\* s3.put_object(...) returns: the object is stored.
PutObjectOk(self) ==
  /\ pc[self] = "L23"
  /\ calls' = [calls EXCEPT ![self] = Append(@, [call |-> PutCall(self), ok |-> TRUE])]
  /\ store' = Stored(PutCall(self))
  /\ pc' = [pc EXCEPT ![self] = "L30"]
  /\ UNCHANGED << s3, bucket, clock, ticks, locals >>

\* A failed put_object tried again.
PutObjectFailRetry(self) ==
  /\ pc[self] = "L23"
  /\ calls' = [calls EXCEPT ![self] = Append(@, [call |-> PutCall(self), ok |-> FALSE])]
  /\ UNCHANGED << s3, bucket, clock, ticks, store, pc, locals >>

\* A put_object that raises after the store has taken the object.
PutObjectFailStores(self) ==
  /\ pc[self] = "L23"
  /\ calls' = [calls EXCEPT ![self] = Append(@, [call |-> PutCall(self), ok |-> FALSE])]
  /\ store' = Stored(PutCall(self))
  /\ pc' = [pc EXCEPT ![self] = "raised"]
  /\ exc' = [exc EXCEPT ![self] = "ClientError"]
  /\ UNCHANGED << s3, bucket, clock, ticks, event, body, payload, today, now,
                  filename, response, token, decoded >>

\* A failed put_object caught and answered with a 500 response.
PutObjectFailCaught(self) ==
  /\ pc[self] = "L23"
  /\ calls' = [calls EXCEPT ![self] = Append(@, [call |-> PutCall(self), ok |-> FALSE])]
  /\ response' = [response EXCEPT ![self] = [statusCode |-> 500, body |-> <<>>]]
  /\ pc' = [pc EXCEPT ![self] = "done"]
  /\ UNCHANGED << s3, bucket, clock, ticks, store, event, body, payload, today,
                  now, filename, exc, token, decoded >>

\* s3.put_object(...) raises: nothing is stored, nothing catches it.
PutObjectFail(self) ==
  /\ pc[self] = "L23"
  /\ calls' = [calls EXCEPT ![self] = Append(@, [call |-> PutCall(self), ok |-> FALSE])]
  /\ pc' = [pc EXCEPT ![self] = "raised"]
  /\ exc' = [exc EXCEPT ![self] = "ClientError"]
  /\ UNCHANGED << s3, bucket, clock, ticks, store, event, body, payload, today,
                  now, filename, response, token, decoded >>

\* The response with the date partition in place of the key.
ReturnToday(self) ==
  /\ pc[self] = "L30"
  /\ response' = [response EXCEPT ![self] =
                    [statusCode |-> 200, body |-> Dumps(ResponseDict(today[self]))]]
  /\ pc' = [pc EXCEPT ![self] = "done"]
  /\ UNCHANGED << s3, bucket, clock, ticks, store, calls, event, body, payload,
                  today, now, filename, exc, token, decoded >>

\* return {"statusCode": 200,
\*         "body": json.dumps({"message": "stored", "key": filename})}
Return(self) ==
  /\ pc[self] = "L30"
  /\ response' = [response EXCEPT ![self] =
                    [statusCode |-> 200, body |-> Dumps(ResponseDict(filename[self]))]]
  /\ pc' = [pc EXCEPT ![self] = "done"]
  /\ UNCHANGED << s3, bucket, clock, ticks, store, calls, event, body, payload,
                  today, now, filename, exc, token, decoded >>

\* One step of lambda_handler in invocation self.
Handler(self) ==
  \/ Decode(self)
  \/ MakeKey(self)
  \/ PutObjectOk(self)
  \/ PutObjectFail(self)
  \/ Return(self)

\* Any number of invocations, interleaved, on the sample events.
Next ==
  \/ Tick
  \/ \E self \in Invocations : Invoke(self, SampleEvents)
  \/ \E self \in Invocations : Handler(self)

Spec == Init /\ [][Next]_vars

\* One invocation at a time, on every short body.
NextJson ==
  \/ Invoke(1, JsonEvents)
  \/ Handler(1)

SpecJson == Init /\ [][NextJson]_vars

\* ----------------------------------------------------------------- claims

\* The invocations that have made a call on s3.
Callers == { i \in Invocations : calls[i] # <<>> }

\* The invocations whose put_object returned.
Stored_ok == { i \in Callers : calls[i][1].ok }

\* The first call invocation i made.
TheCall(i) == calls[i][1].call

\* s is a JSON text, whatever its nesting.
ValidJSON(s) == JSONDecode(s, Len(s) + 1).st = "ok"

\* The invocation has left lines 12-17.
PastDecode(i) == pc[i] \notin {"idle", "L12"}

\* The value under "key" in the JSON object the text s encodes.
KeyOf(s) ==
  LET d == JSONDecode(s, Len(s) + 1).v
  IN d.items[IndexOf(d.keys, <<"k", "e", "y">>)].s

\* C1: an invocation makes no call on the object store before line 23, and
\* once it has reached line 23 and gone on (returned, or raised out of the
\* write) it has made exactly one call, a put_object; an invocation whose
\* write failed has raised and made that one call only.
C1_ExactlyOnePut ==
  \A i \in Invocations :
    /\ \A k \in DOMAIN calls[i] : calls[i][k].call.op = "put_object"
    /\ pc[i] \in {"idle", "L12", "L20", "L23"} => calls[i] = <<>>
    /\ pc[i] \in {"L30", "done"} => Len(calls[i]) = 1 /\ calls[i][1].ok
    /\ pc[i] = "raised" =>
         IF exc[i] = "ClientError"
         THEN Len(calls[i]) = 1 /\ ~calls[i][1].ok
         ELSE calls[i] = <<>>

C1_Witness ==
  \E i, j \in Invocations :
    /\ pc[i] = "raised" /\ exc[i] = "ClientError" /\ Len(calls[i]) = 1
    /\ pc[j] = "done" /\ Len(calls[j]) = 1

StoredMessage(k) ==
  << "{", "\"", "m", "e", "s", "s", "a", "g", "e", "\"", ":", " ", "\"", "s", "t",
     "o", "r", "e", "d", "\"", ",", " ", "\"", "k", "e", "y", "\"", ":", " ", "\"" >>
    \o k \o << "\"", "}" >>

\* C3: an invocation that has returned returned statusCode 200 and the body
\* {"message": "stored", "key": K}, K being the Key of the put_object call it
\* made, and that call had returned; no invocation has a response before its
\* write has returned.
C3_ResponseAfterWrite ==
  \A i \in Invocations :
    /\ response[i] # NoResponse => pc[i] = "done"
    /\ pc[i] = "done" =>
         /\ i \in Stored_ok
         /\ response[i].statusCode = 200
         /\ response[i].body = StoredMessage(TheCall(i).Key)
         /\ JSONDecode(response[i].body, Len(response[i].body)).v
              = ResponseDict(TheCall(i).Key)

C3_Witness ==
  \E i \in Invocations :
    /\ pc[i] = "done" /\ response[i].statusCode = 200
    /\ KeyOf(response[i].body) = filename[i]
    /\ now[i] # StartDate

\* C4: an invocation whose write failed has raised the write's exception and
\* has no response; every response an invocation has is a 200 response, and
\* an invocation that raised has none.
C4_WriteFailurePropagates ==
  \A i \in Invocations :
    /\ (i \in Callers /\ ~calls[i][Len(calls[i])].ok) =>
         pc[i] = "raised" /\ exc[i] = "ClientError" /\ response[i] = NoResponse
    /\ response[i] # NoResponse => response[i].statusCode = 200
    /\ pc[i] = "raised" => response[i] = NoResponse /\ exc[i] # ""
    /\ pc[i] # "raised" => exc[i] = ""

C4_Witness ==
  \E i, j \in Invocations :
    /\ i \in Callers /\ ~calls[i][1].ok /\ pc[i] = "raised"
    /\ pc[j] = "done"

\* C5: when the body is a string that is a JSON text, the text the invocation
\* writes to the store decodes, and to the value the body decodes to.
C5_ValidJsonRoundTrip ==
  \A i \in Callers :
    (event[i].hasBody /\ IsStr(event[i].body) /\ ValidJSON(event[i].body.s)) =>
      /\ Loads(TheCall(i).Body).st = "ok"
      /\ Loads(TheCall(i).Body).v = JSONDecode(event[i].body.s, Len(event[i].body.s) + 1).v
      /\ payload[i] = Loads(TheCall(i).Body).v

\* A stored JSON body whose stored text is not the text of the body.
C5_Witness ==
  \E i \in Stored_ok :
    /\ event[i].hasBody /\ IsStr(event[i].body)
    /\ ValidJSON(event[i].body.s)
    /\ payload[i].t = "list"
    /\ TheCall(i).Body # event[i].body.s
    /\ store[<<bucket, filename[i]>>].Body = TheCall(i).Body

\* C6 as stated: when the body is a string that is no JSON text, the
\* invocation raises nothing out of the decoding, its payload is the string,
\* the text it writes is the JSON string literal of the string and decodes to
\* it, and it returns 200 once the write has returned.
C6_Original ==
  \A i \in Invocations :
    (PastDecode(i) /\ event[i].hasBody /\ IsStr(event[i].body)
       /\ ~ValidJSON(event[i].body.s)) =>
      /\ exc[i] \in {"", "ClientError"}
      /\ payload[i] = event[i].body
      /\ pc[i] \in {"L30", "done", "raised"} => i \in Callers
      /\ i \in Callers =>
           /\ TheCall(i).Body = EncodeString(event[i].body.s)
           /\ Loads(TheCall(i).Body).v = event[i].body
      /\ pc[i] = "done" => response[i].statusCode = 200

\* C7: when the body is not a string (a decoded value, null, or no body
\* field) the invocation never calls json.loads, its payload is the body (None
\* for a missing field), it raises nothing but a failure of the write, and for
\* a missing or null body the text it writes is null; it returns 200 once the
\* write has returned.
C7_NonStringBody ==
  \A i \in Invocations :
    (PastDecode(i) /\ ~(event[i].hasBody /\ IsStr(event[i].body))) =>
      /\ ~decoded[i]
      /\ body[i] = (IF event[i].hasBody THEN event[i].body ELSE JNull)
      /\ payload[i] = body[i]
      /\ exc[i] \in {"", "ClientError"}
      /\ pc[i] \in {"L30", "done", "raised"} => i \in Callers
      /\ (i \in Callers /\ payload[i] = JNull) =>
           TheCall(i).Body = <<"n", "u", "l", "l">>
      /\ i \in Callers => Loads(TheCall(i).Body).v = body[i]
      /\ pc[i] = "done" => response[i].statusCode = 200

C7_Witness ==
  \E i \in Invocations :
    /\ ~event[i].hasBody
    /\ pc[i] = "done"
    /\ store[<<bucket, filename[i]>>].Body = <<"n", "u", "l", "l">>

MatchesKeyPattern(k) ==
  /\ Len(k) = 46
  /\ \A n \in 1..8 : IsDigit(k[n])
  /\ k[9] = "/"
  /\ \A n \in 10..41 : k[n] \in HexSet
  /\ SubSeq(k, 42, 46) = <<".", "j", "s", "o", "n">>

\* C9: every key an invocation has made matches ^\d{8}/[0-9a-f]{32}\.json$,
\* its eight digits are the year, month and day utcnow() returned to the
\* invocation, and its 32 characters are the digits of the invocation's UUID.
C9_KeyFormat ==
  \A i \in Invocations :
    filename[i] # <<>> =>
      /\ MatchesKeyPattern(filename[i])
      /\ StrToNat(SubSeq(filename[i], 1, 4)) = now[i].y
      /\ StrToNat(SubSeq(filename[i], 5, 6)) = now[i].m
      /\ StrToNat(SubSeq(filename[i], 7, 8)) = now[i].d
      /\ \A n \in 1..32 : HexVal(filename[i][9 + n]) = token[i][n]
      /\ \A k \in DOMAIN calls[i] : calls[i][k].call.Key = filename[i]

\* A key made after the day changed, from a UUID with letters among its digits.
C9_Witness ==
  \E i \in Invocations :
    /\ filename[i] # <<>>
    /\ now[i] # StartDate
    /\ \E n \in 10..41 : ~IsDigit(filename[i][n])
    /\ i \in Callers

\* The payload lines 12-17 make of the event ev alone.
PayloadOf(ev) ==
  LET b == IF ev.hasBody THEN ev.body ELSE JNull
  IN IF IsStr(b) /\ ValidJSON(b.s) THEN JSONDecode(b.s, Len(b.s) + 1).v ELSE b

\* C10: the bucket name and the client handle are what module load set them
\* to; every call an invocation makes is a put_object on that bucket with
\* content type application/json, whose Body is the encoding of the payload of
\* the invocation's own event and whose Key is made of the date and the UUID
\* the invocation itself was given; its response carries that key.
C10_NoInterference ==
  /\ bucket = "S3_BUCKET"
  /\ s3 = "boto3.client(s3)"
  /\ \A i \in Invocations :
       /\ \A k \in DOMAIN calls[i] :
            /\ calls[i][k].call.Bucket = bucket
            /\ calls[i][k].call.ContentType = "application/json"
            /\ calls[i][k].call.Body = Dumps(PayloadOf(event[i]))
            /\ calls[i][k].call.Key
                 = Strftime(now[i]) \o <<"/">> \o UUIDHex(token[i])
                     \o <<".", "j", "s", "o", "n">>
       /\ pc[i] = "done" =>
            KeyOf(response[i].body)
              = Strftime(now[i]) \o <<"/">> \o UUIDHex(token[i])
                  \o <<".", "j", "s", "o", "n">>

\* Two invocations in flight at once, on different events and different days.
C10_Witness ==
  \E i, j \in Invocations :
    /\ pc[i] = "L30" /\ pc[j] = "L30"
    /\ event[i] # event[j]
    /\ now[i] # now[j]
    /\ TheCall(i).Body # TheCall(j).Body

====
